---------------------------- MODULE Spec2Model ----------------------------
(***************************************************************************)
(* HealthQueue (Flask): accounts, sessions, password-reset tokens and      *)
(* owner-guarded queue entries, modelled from src/healthqueue.             *)
(*                                                                         *)
(* A request handler is one action.  The handlers that read the store and  *)
(* write to it later (register, account, update_queue) also exist split at *)
(* the point where another request can be served in between: the first     *)
(* part parks the validated request in `pending`, <handler>_commit         *)
(* finishes it.                                                            *)
(* One parked request next to atomic requests yields every interleaving of *)
(* two concurrent requests.                                                *)
(***************************************************************************)
EXTENDS Integers, Sequences, FiniteSets, TLC

(* ------------------------------ bounds -------------------------------- *)
MaxUsers == 2
MaxQueues == 2

(* -------------------------- input universes --------------------------- *)
Clients == {"c1", "c2"}
Usernames == {"al", "bo", "a"}
Emails == {"al@x.org", "bo@x.org", "not-an-email"}
Passwords == {"pw1", "pw2", ""}
Pictures == {"none", "me.jpg", "me.gif"}
BcryptSalts == {"s1", "s2"}

(* ------------------------- library behaviour -------------------------- *)
\* wtforms DataRequired: the field holds a non-empty value.
DataRequired(v) == v # ""

\* wtforms Length(min=2, max=20) of the username fields.
LengthOK(v) == Len(v) >= 2 /\ Len(v) <= 20

\* wtforms Email(): the value has the syntax of an address.
EmailSyntax(v) == v \in {"al@x.org", "bo@x.org"}

\* flask_wtf FileAllowed(['jpg', 'png']) of the picture field.
FileAllowed(p) == p \in {"none", "me.jpg"}

\* bcrypt: the digest is a one-way image of (salt, password); the stored
\* hash carries its salt.
bcrypt_digest(salt, pw) == <<"bcrypt", salt, pw>>

generate_password_hash(pw, salt) ==
    [salt |-> salt, digest |-> bcrypt_digest(salt, pw)]

check_password_hash_nonempty(h, pw) == pw # ""

check_password_hash(h, pw) == bcrypt_digest(h.salt, pw) = h.digest

(* ------------------------------- state -------------------------------- *)
VARIABLES
    users,      \* table user: sequence of rows, the row's id is its index
    plain,      \* history: the password each user's hash was made from
    queues,     \* table queue: set of rows
    session,    \* per client: flask_login's current_user
    pending,    \* a request parked between its validation and its commit
    outbox,     \* mails handed to the mail transport
    now,        \* the clock, in seconds
    resp        \* the response to the last request

vars == <<users, plain, queues, session, pending, outbox, now, resp>>

Anonymous == [is_authenticated |-> FALSE, id |-> 0]
Authenticated(uid) == [is_authenticated |-> TRUE, id |-> uid]
Idle == [op |-> "idle"]

\* Nothing of the request is kept (a GET, or a request turned away before
\* its form is read).
NoForm == [submitted |-> FALSE]

\* login_required turning an anonymous caller away to login_view.
PleaseLogIn == "Please log in to access this page."

UserIds(us) == 1..Len(us)

\* The response to client c: HTTP status, the page rendered or redirected to,
\* the flashed message, the form fields that carry an error; `form` keeps the
\* parts of the request that the properties below speak of (NoForm: none).
Response(op, c, code, to, flash, errors, form) ==
    [op |-> op, c |-> c, code |-> code, to |-> to, flash |-> flash,
     errors |-> errors, form |-> form]

\* Query.filter_by(username=...).first(): the id of the row, 0 for None.
first_by_username(us, name) ==
    IF \E i \in UserIds(us) : us[i].username = name
    THEN CHOOSE i \in UserIds(us) :
             /\ us[i].username = name
             /\ \A j \in UserIds(us) : us[j].username = name => i <= j
    ELSE 0

first_by_email(us, mail) ==
    IF \E i \in UserIds(us) : us[i].email = mail
    THEN CHOOSE i \in UserIds(us) :
             /\ us[i].email = mail
             /\ \A j \in UserIds(us) : us[j].email = mail => i <= j
    ELSE 0

\* The unique=True constraints of user.username and user.email: the table
\* `us` satisfies them.
UniqueOK_off(us) == TRUE

UniqueOK_email_only(us) ==
    \A i, j \in UserIds(us) : i # j => us[i].email # us[j].email

UniqueOK(us) ==
    \A i, j \in UserIds(us) :
        i # j => us[i].username # us[j].username /\ us[i].email # us[j].email

(* --------------------------- RegistrationForm ------------------------- *)
RegistrationForm_validate_username_off(us, name) == FALSE

RegistrationForm_validate_username(us, name) == first_by_username(us, name) # 0

RegistrationForm_validate_email(us, mail) == first_by_email(us, mail) # 0

\* The fields of a submitted registration form that carry an error.
RegistrationErrors(us, f) ==
    {fld \in {"username", "email", "password", "confirm_password"} :
        \/ /\ fld = "username"
           /\ \/ ~DataRequired(f.username)
              \/ ~LengthOK(f.username)
              \/ RegistrationForm_validate_username(us, f.username)
        \/ /\ fld = "email"
           /\ \/ ~DataRequired(f.email)
              \/ ~EmailSyntax(f.email)
              \/ RegistrationForm_validate_email(us, f.email)
        \/ /\ fld = "password"
           /\ ~DataRequired(f.password)
        \/ /\ fld = "confirm_password"
           /\ \/ ~DataRequired(f.confirm_password)
              \/ f.confirm_password # f.password}

RegistrationForms ==
    {f \in [username : Usernames, email : Emails,
            password : Passwords, confirm_password : Passwords] :
        f.confirm_password \in {f.password, "pw1"}}

new_user_hashing_username(f, salt) ==
    [username |-> f.username, email |-> f.email, image_file |-> "default.jpg",
     password |-> generate_password_hash(f.username, salt)]

\* User(username=..., email=..., password=hashed_password); image_file takes
\* its column default.
new_user(f, salt) ==
    [username |-> f.username, email |-> f.email, image_file |-> "default.jpg",
     password |-> generate_password_hash(f.password, salt)]

\* db.session.add(user); db.session.commit(); flash; redirect.  The commit
\* raises IntegrityError (an unhandled 500) when a unique constraint fails.
register_finish(c, f, salt) ==
    IF UniqueOK(Append(users, new_user(f, salt)))
    THEN /\ users' = Append(users, new_user(f, salt))
         /\ plain' = Append(plain, f.password)
         /\ resp' = Response("register", c, 302, "users.login",
                             "Your account has been created!", {},
                             [username |-> f.username])
    ELSE /\ resp' = Response("register", c, 500, "errors/500", "", {},
                             [username |-> f.username])
         /\ UNCHANGED <<users, plain>>

\* POST/GET /register, served without interruption.
register(c, method, f, salt) ==
    /\ (~session[c].is_authenticated /\ method = "POST"
            /\ RegistrationErrors(users, f) = {}) => Len(users) < MaxUsers
    /\ IF session[c].is_authenticated
       THEN /\ resp' = Response("register", c, 302, "main.home", "", {}, NoForm)
            /\ UNCHANGED <<users, plain>>
       ELSE IF method = "POST" /\ RegistrationErrors(users, f) = {}
       THEN register_finish(c, f, salt)
       ELSE IF method = "POST"
       THEN /\ resp' = Response("register", c, 200, "register.html", "",
                                RegistrationErrors(users, f),
                                [username |-> f.username])
            /\ UNCHANGED <<users, plain>>
       ELSE /\ resp' = Response("register", c, 200, "register.html", "", {}, NoForm)
            /\ UNCHANGED <<users, plain>>
    /\ UNCHANGED <<queues, session, pending, outbox, now>>

\* POST /register up to a successful form.validate_on_submit(); the request
\* is parked before it writes.
register_validate(c, f) ==
    /\ pending = Idle
    /\ ~session[c].is_authenticated
    /\ RegistrationErrors(users, f) = {}
    /\ Len(users) < MaxUsers
    /\ pending' = [op |-> "register", c |-> c, form |-> f]
    /\ UNCHANGED <<users, plain, queues, session, outbox, now, resp>>

\* The parked POST /register from hashing the password to the redirect.
register_commit(salt) ==
    /\ pending # Idle
    /\ pending.op = "register"
    /\ register_finish(pending.c, pending.form, salt)
    /\ pending' = Idle
    /\ UNCHANGED <<queues, session, outbox, now>>

(* ------------------------------ LoginForm ----------------------------- *)
LoginForms == [email : Emails, password : Passwords]

LoginErrors(f) ==
    {fld \in {"email", "password"} :
        \/ /\ fld = "email"
           /\ (~DataRequired(f.email) \/ ~EmailSyntax(f.email))
        \/ /\ fld = "password"
           /\ ~DataRequired(f.password)}

\* user = User.query.filter_by(email=...).first();
\* user and bcrypt.check_password_hash(user.password, form.password.data):
\* the id of the user to log in, 0 when the test fails.
login_user_id(us, f) ==
    LET u == first_by_email(us, f.email)
    IN  IF u # 0 /\ check_password_hash(us[u].password, f.password)
        THEN u ELSE 0

LoginUnsuccessful == "Login Unsuccessful. Please check email and password"

login_outcome_telling(us, c, method, f) ==
    IF method = "POST" /\ LoginErrors(f) = {}
    THEN IF login_user_id(us, f) # 0
         THEN [resp |-> Response("login", c, 302, "main.home", "", {}, f),
               user |-> Authenticated(login_user_id(us, f))]
         ELSE [resp |-> Response("login", c, 200, "login.html",
                                 IF first_by_email(us, f.email) = 0
                                 THEN "There is no account with that email"
                                 ELSE LoginUnsuccessful,
                                 {}, f),
               user |-> Anonymous]
    ELSE IF method = "POST"
    THEN [resp |-> Response("login", c, 200, "login.html", "", LoginErrors(f), f),
          user |-> Anonymous]
    ELSE [resp |-> Response("login", c, 200, "login.html", "", {}, NoForm),
          user |-> Anonymous]

\* What an anonymous caller's login request ends in: the response and the
\* session's user afterwards.
login_outcome(us, c, method, f) ==
    IF method = "POST" /\ LoginErrors(f) = {}
    THEN IF login_user_id(us, f) # 0
         THEN [resp |-> Response("login", c, 302, "main.home", "", {}, f),
               user |-> Authenticated(login_user_id(us, f))]
         ELSE [resp |-> Response("login", c, 200, "login.html", LoginUnsuccessful,
                                 {}, f),
               user |-> Anonymous]
    ELSE IF method = "POST"
    THEN [resp |-> Response("login", c, 200, "login.html", "", LoginErrors(f), f),
          user |-> Anonymous]
    ELSE [resp |-> Response("login", c, 200, "login.html", "", {}, NoForm),
          user |-> Anonymous]

\* POST/GET /login.
login(c, method, f) ==
    /\ IF session[c].is_authenticated
       THEN /\ resp' = Response("login", c, 302, "main.home", "", {}, NoForm)
            /\ UNCHANGED session
       ELSE /\ resp' = login_outcome(users, c, method, f).resp
            /\ session' = [session EXCEPT
                               ![c] = login_outcome(users, c, method, f).user]
    /\ UNCHANGED <<users, plain, queues, pending, outbox, now>>

\* GET /logout.
logout(c) ==
    /\ session' = [session EXCEPT ![c] = Anonymous]
    /\ resp' = Response("logout", c, 302, "main.home", "", {}, NoForm)
    /\ UNCHANGED <<users, plain, queues, pending, outbox, now>>

(* --------------------------- UpdateAccountForm ------------------------ *)
AccountForms == [username : Usernames, email : Emails, picture : Pictures]

UpdateAccountForm_validate_username(us, cur, name) ==
    name # cur.username /\ first_by_username(us, name) # 0

UpdateAccountForm_validate_email(us, cur, mail) ==
    mail # cur.email /\ first_by_email(us, mail) # 0

\* The fields in error; `cur` is current_user as loaded for this request.
UpdateAccountErrors(us, cur, f) ==
    {fld \in {"username", "email", "picture"} :
        \/ /\ fld = "username"
           /\ \/ ~DataRequired(f.username)
              \/ ~LengthOK(f.username)
              \/ UpdateAccountForm_validate_username(us, cur, f.username)
        \/ /\ fld = "email"
           /\ \/ ~DataRequired(f.email)
              \/ ~EmailSyntax(f.email)
              \/ UpdateAccountForm_validate_email(us, cur, f.email)
        \/ /\ fld = "picture"
           /\ ~FileAllowed(f.picture)}

\* save_picture: the stored name is random hex plus the upload's extension.
save_picture(p) == "hex.jpg"

\* The row after the handler's assignments are flushed: an UPDATE sets the
\* attributes whose value differs from the one loaded (`cur`).
account_row(row, cur, f) ==
    [row EXCEPT
        !.image_file = IF f.picture # "none" THEN save_picture(f.picture) ELSE @,
        !.username = IF f.username # cur.username THEN f.username ELSE @,
        !.email = IF f.email # cur.email THEN f.email ELSE @]

\* The assignments to current_user, db.session.commit(), flash, redirect.
account_finish(c, uid, cur, f) ==
    IF UniqueOK([users EXCEPT ![uid] = account_row(users[uid], cur, f)])
    THEN /\ users' = [users EXCEPT ![uid] = account_row(users[uid], cur, f)]
         /\ resp' = Response("account", c, 302, "users.account",
                             "Your account has been updated!", {}, NoForm)
    ELSE /\ resp' = Response("account", c, 500, "errors/500", "", {}, NoForm)
         /\ UNCHANGED users

\* POST/GET /account (login_required), served without interruption.
account(c, method, f) ==
    /\ IF ~session[c].is_authenticated
       THEN /\ resp' = Response("account", c, 302, "users.login",
                                PleaseLogIn, {}, NoForm)
            /\ UNCHANGED users
       ELSE IF method = "POST"
               /\ UpdateAccountErrors(users, users[session[c].id], f) = {}
       THEN account_finish(c, session[c].id, users[session[c].id], f)
       ELSE /\ resp' = Response("account", c, 200, "account.html", "",
                           IF method = "POST"
                           THEN UpdateAccountErrors(users, users[session[c].id], f)
                           ELSE {},
                           NoForm)
            /\ UNCHANGED users
    /\ UNCHANGED <<plain, queues, session, pending, outbox, now>>

\* POST /account up to a successful form.validate_on_submit().
account_validate(c, f) ==
    /\ pending = Idle
    /\ session[c].is_authenticated
    /\ UpdateAccountErrors(users, users[session[c].id], f) = {}
    /\ pending' = [op |-> "account", c |-> c, form |-> f, uid |-> session[c].id,
                   cur |-> [username |-> users[session[c].id].username,
                            email |-> users[session[c].id].email]]
    /\ UNCHANGED <<users, plain, queues, session, outbox, now, resp>>

\* The parked POST /account from its assignments to the redirect.
account_commit ==
    /\ pending # Idle
    /\ pending.op = "account"
    /\ account_finish(pending.c, pending.uid, pending.cur, pending.form)
    /\ pending' = Idle
    /\ UNCHANGED <<plain, queues, session, outbox, now>>

(* ------------------- itsdangerous URLSafeTimedSerializer -------------- *)
\* A raised exception, a returned value.
Raise(exc) == [raised |-> TRUE, exc |-> exc]
Return(v) == [raised |-> FALSE, value |-> v]

\* Python values that reach the serializer's salt parameter.
PyBytes(v) == [type |-> "bytes", value |-> v]
PyInt(v) == [type |-> "int", value |-> v]

\* app.config['SECRET_KEY'], and a key that is not the application's.
SECRET_KEY == "key-A"
OtherKey == "key-B"

\* get_reset_token(self, expires_sec=1800).
expires_sec == 1800

\* Serializer.__init__(secret_key, salt=b"itsdangerous"): the second
\* positional parameter is the salt.
DefaultSalt == PyBytes("itsdangerous")
Serializer(secret_key, salt) == [secret_key |-> secret_key, salt |-> salt]

\* loads(token) without max_age, loads(token, max_age=n).
NoMaxAge == [given |-> FALSE]
MaxAge(n) == [given |-> TRUE, seconds |-> n]

signature_keyless(s, payload, ts) == <<"hmac", "", s.salt.value, payload, ts>>

\* The timestamp signer's HMAC over payload and timestamp, keyed by the key
\* derived from the secret key and the salt.
signature(s, payload, ts) == <<"hmac", s.secret_key, s.salt.value, payload, ts>>

\* Serializer.dumps at time t: the signed string.  Deriving the key
\* concatenates the salt with bytes, a TypeError for a salt that is an int.
dumps(s, obj, t) ==
    IF s.salt.type # "bytes"
    THEN Raise("TypeError")
    ELSE Return([type |-> "str", payload |-> obj, timestamp |-> t,
                 sig |-> signature(s, obj, t)])

\* <value>.decode('utf-8'): bytes have it, str has not.
decode(v) ==
    IF v.type = "bytes" THEN Return([v EXCEPT !.type = "str"])
    ELSE Raise("AttributeError")

\* Serializer.loads at time t.
loads(s, token, max_age, t) ==
    IF token.sig # signature(s, token.payload, token.timestamp)
    THEN Raise("BadSignature")
    ELSE IF max_age.given /\ t - token.timestamp > max_age.seconds
    THEN Raise("SignatureExpired")
    ELSE Return(token.payload)

(* ----------------------------- reset tokens --------------------------- *)
\* User.get_reset_token at time t.
get_reset_token(uid, expires, t) ==
    LET r == dumps(Serializer(SECRET_KEY, PyInt(expires)), [user_id |-> uid], t)
    IN  IF r.raised THEN r ELSE decode(r.value)

verify_reset_token_once(token, us, t) ==
    LET r == loads(Serializer(SECRET_KEY, DefaultSalt), token, NoMaxAge, t)
    IN  IF r.raised THEN 0
        ELSE IF "user_id" \notin DOMAIN r.value THEN 0
        ELSE IF r.value.user_id \notin UserIds(us) THEN 0
        ELSE IF us[r.value.user_id].password.salt = "s2" THEN 0
        ELSE r.value.user_id

\* User.verify_reset_token at time t: the user's id, 0 for None.
verify_reset_token(token, us, t) ==
    LET r == loads(Serializer(SECRET_KEY, DefaultSalt), token, NoMaxAge, t)
    IN  IF r.raised THEN 0
        ELSE IF "user_id" \notin DOMAIN r.value THEN 0
        ELSE IF r.value.user_id \in UserIds(us) THEN r.value.user_id
        ELSE 0

\* The clock values: the start, the last second of a token's window, the
\* first second after it.
ClockValues == {0, expires_sec, expires_sec + 1}

\* Tokens a client can present.  Signed ones carry a user id (of a user or
\* of none) and are issued at time 0 under the application's key or another
\* and the serializer's default salt; a tampered token is a signed one with
\* its user id changed; a signed payload without user_id; a string that is
\* no token.
SignedToken(key, payload, ts) ==
    [type |-> "str", payload |-> payload, timestamp |-> ts,
     sig |-> signature(Serializer(key, DefaultSalt), payload, ts)]

Malformed == [type |-> "str", payload |-> [junk |-> TRUE], timestamp |-> 0,
              sig |-> <<>>]

TokenInputs ==
    {SignedToken(k, [user_id |-> u], 0) :
        k \in {SECRET_KEY, OtherKey}, u \in 1..(MaxUsers + 1)}
    \cup {[SignedToken(SECRET_KEY, [user_id |-> 1], 0)
              EXCEPT !.payload = [user_id |-> 2]],
          SignedToken(SECRET_KEY, [id |-> 1], 0),
          Malformed}

(* --------------------------- RequestResetForm ------------------------- *)
RequestResetForms == [email : Emails]

RequestResetForm_validate_email_off(us, mail) == FALSE

\* validate_email raises when no user has the address.
RequestResetForm_validate_email(us, mail) == first_by_email(us, mail) = 0

RequestResetErrors(us, f) ==
    {fld \in {"email"} :
        \/ ~DataRequired(f.email)
        \/ ~EmailSyntax(f.email)
        \/ RequestResetForm_validate_email(us, f.email)}

EmailSent == "An email has been sent with instructions to reset your password."
InvalidToken == "That is an invalid or expired token"

\* send_reset_email(user) at time t: the token minted for the user (None has
\* no get_reset_token), then the message handed to mail.send.
send_reset_email(us, uid, t) ==
    IF uid = 0 THEN Raise("AttributeError")
    ELSE LET r == get_reset_token(uid, expires_sec, t)
         IN  IF r.raised THEN r
             ELSE Return([recipient |-> us[uid].email, token |-> r.value])

\* POST/GET /reset_password.
reset_request(c, method, f) ==
    /\ IF session[c].is_authenticated
       THEN /\ resp' = Response("reset_request", c, 302, "main.home", "", {}, NoForm)
            /\ UNCHANGED outbox
       ELSE IF method = "POST" /\ RequestResetErrors(users, f) = {}
       THEN LET m == send_reset_email(users, first_by_email(users, f.email), now)
            IN  IF m.raised
                THEN /\ resp' = Response("reset_request", c, 500, "errors/500",
                                         "", {}, f)
                     /\ UNCHANGED outbox
                ELSE /\ outbox' = outbox \cup {m.value}
                     /\ resp' = Response("reset_request", c, 302, "users.login",
                                         EmailSent, {}, f)
       ELSE IF method = "POST"
       THEN /\ resp' = Response("reset_request", c, 200, "reset_request.html", "",
                                RequestResetErrors(users, f), f)
            /\ UNCHANGED outbox
       ELSE /\ resp' = Response("reset_request", c, 200, "reset_request.html", "",
                                {}, NoForm)
            /\ UNCHANGED outbox
    /\ UNCHANGED <<users, plain, queues, session, pending, now>>

(* --------------------------- ResetPasswordForm ------------------------ *)
ResetPasswordForms ==
    {f \in [password : Passwords, confirm_password : Passwords] :
        f.confirm_password \in {f.password, "pw1"}}

ResetPasswordErrors(f) ==
    {fld \in {"password", "confirm_password"} :
        \/ /\ fld = "password"
           /\ ~DataRequired(f.password)
        \/ /\ fld = "confirm_password"
           /\ \/ ~DataRequired(f.confirm_password)
              \/ f.confirm_password # f.password}

PasswordUpdated == "Your password has been updated!"

set_password_of_all(us, uid, h) ==
    [i \in DOMAIN us |-> [us[i] EXCEPT !.password = h]]

\* user.password = hashed_password; db.session.commit(): the users after the
\* row of user uid got the hash h.
set_password(us, uid, h) == [us EXCEPT ![uid].password = h]

\* The request of a reset as the properties see it: the token, and whether
\* the response before this one was a completed reset with the same token.
ResetAttempt(token) ==
    [token |-> token,
     again |-> (resp.op = "reset_token" /\ resp.flash = PasswordUpdated
                    /\ resp.form.token = token)]

\* POST/GET /reset_password/<token>.
reset_token(c, method, token, f, salt) ==
    /\ IF session[c].is_authenticated
       THEN /\ resp' = Response("reset_token", c, 302, "main.home", "", {}, NoForm)
            /\ UNCHANGED <<users, plain>>
       ELSE IF verify_reset_token(token, users, now) = 0
       THEN /\ resp' = Response("reset_token", c, 302, "users.reset_request",
                                InvalidToken, {}, ResetAttempt(token))
            /\ UNCHANGED <<users, plain>>
       ELSE IF method = "POST" /\ ResetPasswordErrors(f) = {}
       THEN /\ users' = set_password(users, verify_reset_token(token, users, now),
                                     generate_password_hash(f.password, salt))
            /\ plain' = [plain EXCEPT
                            ![verify_reset_token(token, users, now)] = f.password]
            /\ resp' = Response("reset_token", c, 302, "users.login",
                                PasswordUpdated, {}, ResetAttempt(token))
       ELSE /\ resp' = Response("reset_token", c, 200, "reset_token.html", "",
                                IF method = "POST" THEN ResetPasswordErrors(f)
                                                   ELSE {},
                                ResetAttempt(token))
            /\ UNCHANGED <<users, plain>>
    /\ UNCHANGED <<queues, session, pending, outbox, now>>

\* Time passes.
Tick ==
    /\ \E t \in ClockValues : t > now /\ now' = t
    /\ UNCHANGED <<users, plain, queues, session, pending, outbox, resp>>

(* ------------------------------ queues -------------------------------- *)
Titles == {"Jane Doe", ""}
Contents == {"X-ray", "MRI", ""}
QueueForms == [title : Titles, content : Contents]
QueueIds == 1..MaxQueues

QueueErrors(f) ==
    {fld \in {"title", "content"} :
        \/ /\ fld = "title"
           /\ ~DataRequired(f.title)
        \/ /\ fld = "content"
           /\ ~DataRequired(f.content)}

\* Queue.query.get_or_404(queue_id): the row exists.
HasQueue(qs, qid) == \E q \in qs : q.id = qid
QueueById(qs, qid) == CHOOSE q \in qs : q.id = qid

not_author_never(q, cur) == FALSE

\* queue.author != current_user.
not_author(q, cur) == q.user_id # cur.id

\* POST/GET /queue/new (login_required).  The row gets a primary key that no
\* row of the table holds and date_queued's default, the time of the insert.
new_queue(c, method, f, qid) ==
    /\ IF ~session[c].is_authenticated
       THEN /\ resp' = Response("new_queue", c, 302, "users.login", PleaseLogIn,
                                {}, NoForm)
            /\ UNCHANGED queues
       ELSE IF method = "POST" /\ QueueErrors(f) = {}
       THEN /\ ~HasQueue(queues, qid)
            /\ queues' = queues \cup
                   {[id |-> qid, title |-> f.title, content |-> f.content,
                     date_queued |-> now, user_id |-> session[c].id]}
            /\ resp' = Response("new_queue", c, 302, "main.home",
                                "Your queue has been created!", {},
                                [queue_id |-> qid])
       ELSE /\ resp' = Response("new_queue", c, 200, "create_queue.html", "",
                                IF method = "POST" THEN QueueErrors(f) ELSE {},
                                NoForm)
            /\ UNCHANGED queues
    /\ UNCHANGED <<users, plain, session, pending, outbox, now>>

\* GET /queue/<queue_id>: open to everyone.
queue(c, qid) ==
    /\ IF HasQueue(queues, qid)
       THEN resp' = Response("queue", c, 200, "queue.html", "", {},
                             [queue_id |-> qid])
       ELSE resp' = Response("queue", c, 404, "errors/404", "", {},
                             [queue_id |-> qid])
    /\ UNCHANGED <<users, plain, queues, session, pending, outbox, now>>

QueueUpdated == "Your queue has been updated!"

\* The request of a completed update as the properties see it.
UpdateRequest(qid, f) == [queue_id |-> qid, title |-> f.title, content |-> f.content]

update_queue_row_touching(q, f, t) ==
    [q EXCEPT !.title = f.title, !.content = f.content, !.date_queued = t]

\* queue.title = form.title.data; queue.content = form.content.data: the row
\* an update at time t writes.  No other column is assigned.
update_queue_row(q, f, t) ==
    [q EXCEPT !.title = f.title, !.content = f.content]

\* POST/GET /queue/<queue_id>/update (login_required).
update_queue(c, method, qid, f) ==
    /\ IF ~session[c].is_authenticated
       THEN /\ resp' = Response("update_queue", c, 302, "users.login", PleaseLogIn,
                                {}, [queue_id |-> qid])
            /\ UNCHANGED queues
       ELSE IF ~HasQueue(queues, qid)
       THEN /\ resp' = Response("update_queue", c, 404, "errors/404", "", {},
                                [queue_id |-> qid])
            /\ UNCHANGED queues
       ELSE IF not_author(QueueById(queues, qid), session[c])
       THEN /\ resp' = Response("update_queue", c, 403, "errors/403", "", {},
                                [queue_id |-> qid])
            /\ UNCHANGED queues
       ELSE IF method = "POST" /\ QueueErrors(f) = {}
       THEN /\ queues' = (queues \ {QueueById(queues, qid)}) \cup
                   {update_queue_row(QueueById(queues, qid), f, now)}
            /\ resp' = Response("update_queue", c, 302, "queues.queue",
                                QueueUpdated, {}, UpdateRequest(qid, f))
       ELSE /\ resp' = Response("update_queue", c, 200, "create_queue.html", "",
                                IF method = "POST" THEN QueueErrors(f) ELSE {},
                                [queue_id |-> qid])
            /\ UNCHANGED queues
    /\ UNCHANGED <<users, plain, session, pending, outbox, now>>

\* POST /queue/<queue_id>/update up to a successful validate_on_submit():
\* the row is loaded (get_or_404), the caller is its author, the form is
\* valid.  The request is parked holding the row as loaded (`loaded`) and
\* the object it is about to assign to (`obj`).
update_load(c, qid, f) ==
    /\ pending = Idle
    /\ session[c].is_authenticated
    /\ HasQueue(queues, qid)
    /\ ~not_author(QueueById(queues, qid), session[c])
    /\ QueueErrors(f) = {}
    /\ pending' = [op |-> "update_queue", c |-> c, qid |-> qid, form |-> f,
                   loaded |-> QueueById(queues, qid),
                   obj |-> QueueById(queues, qid), step |-> "validated"]
    /\ UNCHANGED <<users, plain, queues, session, outbox, now, resp>>

\* queue.title = form.title.data: an assignment to the object in memory.
update_set_title ==
    /\ pending # Idle
    /\ pending.op = "update_queue"
    /\ pending.step = "validated"
    /\ pending' = [pending EXCEPT !.obj.title = pending.form.title,
                                  !.step = "title"]
    /\ UNCHANGED <<users, plain, queues, session, outbox, now, resp>>

\* queue.content = form.content.data.
update_set_content ==
    /\ pending # Idle
    /\ pending.op = "update_queue"
    /\ pending.step = "title"
    /\ pending' = [pending EXCEPT !.obj.content = pending.form.content,
                                  !.step = "content"]
    /\ UNCHANGED <<users, plain, queues, session, outbox, now, resp>>

\* The columns the flush writes: the attributes of the object whose value
\* differs from the value loaded.
dirty_columns(loaded, obj) ==
    {col \in {"title", "content"} : obj[col] # loaded[col]}

\* The stored row after UPDATE queue SET <dirty columns> WHERE id = <id>.
flush_update(row, loaded, obj) ==
    [row EXCEPT
        !.title = IF "title" \in dirty_columns(loaded, obj) THEN obj.title ELSE @,
        !.content = IF "content" \in dirty_columns(loaded, obj)
                    THEN obj.content ELSE @]

\* db.session.commit(); flash; redirect of the parked update.  Nothing dirty:
\* no statement is sent.  The row gone: the UPDATE matches no row, the
\* commit raises (StaleDataError, a 500) and the transaction is rolled back.
update_commit ==
    /\ pending # Idle
    /\ pending.op = "update_queue"
    /\ pending.step = "content"
    /\ IF dirty_columns(pending.loaded, pending.obj) = {}
       THEN /\ resp' = Response("update_queue", pending.c, 302, "queues.queue",
                                QueueUpdated, {},
                                UpdateRequest(pending.qid, pending.form))
            /\ UNCHANGED queues
       ELSE IF ~HasQueue(queues, pending.qid)
       THEN /\ resp' = Response("update_queue", pending.c, 500, "errors/500", "",
                                {}, [queue_id |-> pending.qid])
            /\ UNCHANGED queues
       ELSE /\ queues' = (queues \ {QueueById(queues, pending.qid)}) \cup
                   {flush_update(QueueById(queues, pending.qid),
                                 pending.loaded, pending.obj)}
            /\ resp' = Response("update_queue", pending.c, 302, "queues.queue",
                                QueueUpdated, {},
                                UpdateRequest(pending.qid, pending.form))
    /\ pending' = Idle
    /\ UNCHANGED <<users, plain, session, outbox, now>>

\* The worker serving the parked update dies before the commit: the
\* assignments were in memory only, the store holds what it held.
update_crash ==
    /\ pending # Idle
    /\ pending.op = "update_queue"
    /\ resp' = Response("update_queue", pending.c, 500, "errors/500", "", {},
                        [queue_id |-> pending.qid])
    /\ pending' = Idle
    /\ UNCHANGED <<users, plain, queues, session, outbox, now>>

\* The request of a delete as the properties see it: the id, and whether the
\* response before this one was the successful delete of the same id.
DeleteRequest(qid) ==
    [queue_id |-> qid,
     again |-> (resp.op = "delete_queue" /\ resp.code = 302
                    /\ resp.to = "main.home" /\ resp.form.queue_id = qid)]

delete_queue_lenient(c, qid) ==
    /\ IF ~session[c].is_authenticated
       THEN /\ resp' = Response("delete_queue", c, 302, "users.login", PleaseLogIn,
                                {}, DeleteRequest(qid))
            /\ UNCHANGED queues
       ELSE IF HasQueue(queues, qid) /\ not_author(QueueById(queues, qid), session[c])
       THEN /\ resp' = Response("delete_queue", c, 403, "errors/403", "", {},
                                DeleteRequest(qid))
            /\ UNCHANGED queues
       ELSE /\ queues' = {q \in queues : q.id # qid}
            /\ resp' = Response("delete_queue", c, 302, "main.home",
                                "Your queue has been deleted!", {},
                                DeleteRequest(qid))
    /\ UNCHANGED <<users, plain, session, pending, outbox, now>>

\* POST /queue/<queue_id>/delete (login_required).
delete_queue(c, qid) ==
    /\ IF ~session[c].is_authenticated
       THEN /\ resp' = Response("delete_queue", c, 302, "users.login", PleaseLogIn,
                                {}, DeleteRequest(qid))
            /\ UNCHANGED queues
       ELSE IF ~HasQueue(queues, qid)
       THEN /\ resp' = Response("delete_queue", c, 404, "errors/404", "", {},
                                DeleteRequest(qid))
            /\ UNCHANGED queues
       ELSE IF not_author(QueueById(queues, qid), session[c])
       THEN /\ resp' = Response("delete_queue", c, 403, "errors/403", "", {},
                                DeleteRequest(qid))
            /\ UNCHANGED queues
       ELSE /\ queues' = queues \ {QueueById(queues, qid)}
            /\ resp' = Response("delete_queue", c, 302, "main.home",
                                "Your queue has been deleted!", {},
                                DeleteRequest(qid))
    /\ UNCHANGED <<users, plain, session, pending, outbox, now>>

(* ------------------------------ listings ------------------------------ *)
\* paginate(page=page, per_page=5).
per_page == 5

\* The most entries a listed store holds.
MaxListed == 6

\* ORDER BY date_queued DESC leaves the order of rows with equal date_queued
\* to the store: by ascending or by descending primary key.
TieBreaks == {"asc", "desc"}

Before_ascending(a, b, tie) ==
    \/ a.date_queued < b.date_queued
    \/ /\ a.date_queued = b.date_queued
       /\ IF tie = "asc" THEN a.id < b.id ELSE a.id > b.id

\* Queue.date_queued.desc(): row a is listed before row b.
Before(a, b, tie) ==
    \/ a.date_queued > b.date_queued
    \/ /\ a.date_queued = b.date_queued
       /\ IF tie = "asc" THEN a.id < b.id ELSE a.id > b.id

\* Queue.query.order_by(Queue.date_queued.desc()): the rows qs in order.
RECURSIVE order_by_date_queued_desc(_, _)
order_by_date_queued_desc(qs, tie) ==
    IF qs = {} THEN <<>>
    ELSE LET head == CHOOSE a \in qs : \A b \in qs \ {a} : Before(a, b, tie)
         IN  <<head>> \o order_by_date_queued_desc(qs \ {head}, tie)

\* Query.paginate(page, per_page): the page's items; found is FALSE where
\* paginate aborts with 404 (a page below 1, or an empty page other than
\* the first).
paginate(qs, page, tie) ==
    LET all == order_by_date_queued_desc(qs, tie)
        first == (page - 1) * per_page + 1
        last == IF page * per_page < Len(all) THEN page * per_page ELSE Len(all)
    IN  [items |-> IF page >= 1 THEN SubSeq(all, first, last) ELSE <<>>,
         found |-> page >= 1 /\ (page = 1 \/ first <= Len(all))]

\* The response of a listing.
Listing(op, c, pg, page, listed) ==
    IF pg.found
    THEN Response(op, c, 200, op, "", {},
                  [page |-> page, items |-> pg.items, listed |-> listed])
    ELSE Response(op, c, 404, "errors/404", "", {}, [page |-> page])

\* GET /home?page=<page>.
home(c, page, tie) ==
    /\ resp' = Listing("home", c, paginate(queues, page, tie), page, queues)
    /\ UNCHANGED <<users, plain, queues, session, pending, outbox, now>>

\* The rows of Queue.query.filter_by(author=user).
filter_by_author(qs, uid) == {q \in qs : q.user_id = uid}

\* GET /user/<username>?page=<page>.
user_queues(c, username, page, tie) ==
    /\ IF first_by_username(users, username) = 0
       THEN resp' = Response("user_queues", c, 404, "errors/404", "", {},
                             [page |-> page])
       ELSE resp' = Listing("user_queues", c,
                       paginate(filter_by_author(queues,
                                    first_by_username(users, username)),
                                page, tie),
                       page,
                       filter_by_author(queues, first_by_username(users, username)))
    /\ UNCHANGED <<users, plain, queues, session, pending, outbox, now>>

(* --------------------------- specifications --------------------------- *)
\* create_app() and db.create_all(): empty tables, no session.
Init ==
    /\ users = <<>>
    /\ plain = <<>>
    /\ queues = {}
    /\ session = [c \in Clients |-> Anonymous]
    /\ pending = Idle
    /\ outbox = {}
    /\ now = 0
    /\ resp = Response("none", "c1", 0, "", "", {}, NoForm)

NextAccounts ==
    \/ \E c \in Clients, f \in RegistrationForms :
           register(c, "POST", f, "s1")
    \/ \E c \in Clients : register(c, "GET", NoForm, "s1")
    \/ \E c \in Clients, f \in LoginForms : login(c, "POST", f)
    \/ \E c \in Clients : login(c, "GET", NoForm)
    \/ \E c \in Clients : logout(c)
    \/ \E c \in Clients, f \in AccountForms : account(c, "POST", f)
    \/ \E c \in Clients : account(c, "GET", NoForm)

\* The account handlers, each served without interruption, over an
\* initially empty store.
SpecAccounts == Init /\ [][NextAccounts]_vars

\* Forms that pass every syntactic validator, with one password and no
\* picture: what two racing requests need to differ in is the names.
RaceRegistrationForms ==
    {f \in RegistrationForms :
        /\ f.username \in {"al", "bo"} /\ f.email \in {"al@x.org", "bo@x.org"}
        /\ f.password = "pw1" /\ f.confirm_password = "pw1"}

RaceAccountForms ==
    {f \in AccountForms :
        /\ f.username \in {"al", "bo"} /\ f.email \in {"al@x.org", "bo@x.org"}
        /\ f.picture = "none"}

NextRace ==
    \/ \E c \in Clients, f \in RaceRegistrationForms : register(c, "POST", f, "s1")
    \/ \E c \in Clients, f \in RaceRegistrationForms : register_validate(c, f)
    \/ register_commit("s1")
    \/ \E c \in Clients : login(c, "POST", [email |-> "al@x.org", password |-> "pw1"])
    \/ \E c \in Clients : login(c, "POST", [email |-> "bo@x.org", password |-> "pw1"])
    \/ \E c \in Clients : logout(c)
    \/ \E c \in Clients, f \in RaceAccountForms : account(c, "POST", f)
    \/ \E c \in Clients, f \in RaceAccountForms : account_validate(c, f)
    \/ account_commit

\* The same handlers with one request parked between its validation and
\* its commit while others are served.
SpecRace == Init /\ [][NextRace]_vars

\* The store after two registrations.
SeedUsers ==
    <<new_user([username |-> "al", email |-> "al@x.org", password |-> "pw1"], "s1"),
      new_user([username |-> "bo", email |-> "bo@x.org", password |-> "pw2"], "s1")>>

SeedPlain == <<"pw1", "pw2">>

\* An entry the first user has queued.
SeedQueues ==
    {[id |-> 1, title |-> "Jane Doe", content |-> "X-ray", date_queued |-> 0,
      user_id |-> 1]}

InitReset ==
    /\ \E n \in 1..2 : users = SubSeq(SeedUsers, 1, n) /\ plain = SubSeq(SeedPlain, 1, n)
    /\ queues = SeedQueues
    /\ session = [c \in Clients |-> Anonymous]
    /\ pending = Idle
    /\ outbox = {}
    /\ now = 0
    /\ resp = Response("none", "c1", 0, "", "", {}, NoForm)

SeedLogins ==
    {[email |-> "al@x.org", password |-> "pw1"],
     [email |-> "bo@x.org", password |-> "pw2"],
     [email |-> "al@x.org", password |-> "pw2"]}

NextReset ==
    \/ \E c \in Clients, f \in SeedLogins : login(c, "POST", f)
    \/ \E c \in Clients : logout(c)
    \/ \E c \in Clients, f \in RequestResetForms : reset_request(c, "POST", f)
    \/ \E c \in Clients : reset_request(c, "GET", NoForm)
    \/ \E c \in Clients, tok \in TokenInputs, f \in ResetPasswordForms :
           reset_token(c, "POST", tok, f, "s2")
    \/ \E c \in Clients, tok \in TokenInputs : reset_token(c, "GET", tok, NoForm, "s2")
    \/ Tick

\* Password reset over a store that holds one or two registered users.
SpecReset == InitReset /\ [][NextReset]_vars

InitQueues ==
    /\ users = SeedUsers
    /\ plain = SeedPlain
    /\ queues = {}
    /\ session = [c \in Clients |-> Anonymous]
    /\ pending = Idle
    /\ outbox = {}
    /\ now = 0
    /\ resp = Response("none", "c1", 0, "", "", {}, NoForm)

NextQueues ==
    \/ \E c \in Clients, f \in SeedLogins : login(c, "POST", f)
    \/ \E c \in Clients : logout(c)
    \/ \E c \in Clients, f \in QueueForms, qid \in QueueIds :
           new_queue(c, "POST", f, qid)
    \/ \E c \in Clients : new_queue(c, "GET", NoForm, 1)
    \/ \E c \in Clients, qid \in QueueIds : queue(c, qid)
    \/ \E c \in Clients, qid \in QueueIds, f \in QueueForms :
           update_queue(c, "POST", qid, f)
    \/ \E c \in Clients, qid \in QueueIds : update_queue(c, "GET", qid, NoForm)
    \/ \E c \in Clients, qid \in QueueIds : delete_queue(c, qid)

\* The queue handlers over a store that holds two registered users.
SpecQueues == InitQueues /\ [][NextQueues]_vars

\* One entry form for creating and updating, one picture upload, one reset
\* of the first user's password: the requests that could touch an entry's
\* owner or creation time.
EntryForm == [title |-> "Jane Doe", content |-> "X-ray"]
PictureUpload == [username |-> "al", email |-> "al@x.org", picture |-> "me.jpg"]
ResetOfFirstUser == SignedToken(SECRET_KEY, [user_id |-> 1], 0)

NextEntries ==
    \/ \E f \in SeedLogins : login("c1", "POST", f)
    \/ logout("c1")
    \/ \E qid \in QueueIds : new_queue("c1", "POST", EntryForm, qid)
    \/ \E qid \in QueueIds : update_queue("c1", "POST", qid, EntryForm)
    \/ \E qid \in QueueIds : delete_queue("c1", qid)
    \/ account("c1", "POST", PictureUpload)
    \/ reset_token("c2", "POST", ResetOfFirstUser,
                   [password |-> "pw2", confirm_password |-> "pw2"], "s2")
    \/ Tick

\* The queue handlers next to account updates, password resets and the
\* passing of time, over a store that holds two registered users.
SpecEntries == InitQueues /\ [][NextEntries]_vars

\* The stores to list: up to MaxListed entries of the first user, each
\* created at some time up to now.
ListedStores ==
    UNION {{{[id |-> i, title |-> "Jane Doe", content |-> "X-ray",
              date_queued |-> d[i], user_id |-> 1] : i \in 1..n} :
            d \in [1..n -> ClockValues]} :
           n \in 0..MaxListed}

InitListing ==
    /\ users = SeedUsers
    /\ plain = SeedPlain
    /\ queues \in ListedStores
    /\ session = [c \in Clients |-> Anonymous]
    /\ pending = Idle
    /\ outbox = {}
    /\ now = expires_sec + 1
    /\ resp = Response("none", "c1", 0, "", "", {}, NoForm)

NextListing ==
    \/ \E page \in 0..3, tie \in TieBreaks : home("c1", page, tie)
    \/ \E name \in Usernames, page \in 0..3, tie \in TieBreaks :
           user_queues("c1", name, page, tie)

\* The listings over every store of up to MaxListed entries.
SpecListing == InitListing /\ [][NextListing]_vars

\* The first user's entry and two updates of it, each changing one field,
\* and a form that does not validate.
InitUpdate ==
    /\ users = SeedUsers
    /\ plain = SeedPlain
    /\ queues = SeedQueues
    /\ session = [c \in Clients |-> Anonymous]
    /\ pending = Idle
    /\ outbox = {}
    /\ now = 0
    /\ resp = Response("none", "c1", 0, "", "", {}, NoForm)

UpdateForms ==
    {[title |-> "Jane Doe", content |-> "MRI"],
     [title |-> "John Roe", content |-> "X-ray"],
     [title |-> "", content |-> "MRI"]}

NextUpdate ==
    \/ \E c \in Clients : login(c, "POST", [email |-> "al@x.org", password |-> "pw1"])
    \/ \E f \in UpdateForms : update_load("c1", 1, f)
    \/ update_set_title
    \/ update_set_content
    \/ update_commit
    \/ update_crash
    \/ \E f \in UpdateForms : update_queue("c2", "POST", 1, f)
    \/ queue("c2", 1)
    \/ delete_queue("c2", 1)

\* One update of an entry served step by step while other requests of its
\* owner are served in between.
SpecUpdate == InitUpdate /\ [][NextUpdate]_vars

(* ------------------------------ properties ---------------------------- *)
\* The response's parts a caller sees.
Visible(r) == [code |-> r.code, to |-> r.to, flash |-> r.flash, errors |-> r.errors]

\* A token that verification within the ttl turns down: its signature is not
\* the application's, it is malformed, or it is older than expires_sec.
FailsVerification(token, t) ==
    loads(Serializer(SECRET_KEY, DefaultSalt), token, MaxAge(expires_sec), t).raised

\* C1 (token round trip): once a reset request for the email of an existing
\* user u has been handled, a token for u has been minted and mailed, and
\* presented at any time up to expires_sec after its minting it verifies to
\* exactly u.
C1_TokenRoundTrip ==
    (/\ resp.op = "reset_request"
     /\ resp.form # NoForm
     /\ first_by_email(users, resp.form.email) # 0)
    => \E m \in outbox :
          /\ m.recipient = resp.form.email
          /\ now - m.token.timestamp <= expires_sec
                => verify_reset_token(m.token, users, now)
                       = first_by_email(users, resp.form.email)

\* C2 (token expiry): a token presented to reset_token more than expires_sec
\* seconds after its minting is turned down as invalid and changes no
\* password.
C2_TokenExpiry ==
    [][(/\ resp'.op = "reset_token"
        /\ now' = now
        /\ resp'.form # NoForm
        /\ now - resp'.form.token.timestamp > expires_sec)
       => (resp'.flash = InvalidToken /\ users' = users)]_vars

\* C4 (invalid token, no mutation): reset_token with a token that fails
\* verification (bad signature, malformed, or expired) ends in the warning
\* and the redirect to the reset-request page and changes nothing stored,
\* whatever password was submitted.
C4_InvalidTokenNoMutation ==
    [][(/\ resp'.op = "reset_token"
        /\ now' = now
        /\ resp'.form # NoForm
        /\ FailsVerification(resp'.form.token, now))
       => (/\ resp'.flash = InvalidToken
           /\ resp'.to = "users.reset_request"
           /\ users' = users
           /\ queues' = queues
           /\ session' = session)]_vars

\* C5 as claimed (information hiding): a reset request for a well-formed
\* email of no user gets the generic "email sent" confirmation.
C5_GenericConfirmation ==
    (/\ resp.op = "reset_request"
     /\ resp.form # NoForm
     /\ EmailSyntax(resp.form.email)
     /\ first_by_email(users, resp.form.email) = 0)
    => (resp.code = 302 /\ resp.flash = EmailSent)

\* C5 as amended: a reset request for an email of no user ends in a
\* validation error on the email field and no confirmation, mints no token
\* and sends no mail; a request for the email of a user carries no error on
\* that field, so the two responses differ.
C5_UnknownEmailRejected ==
    [][(/\ resp'.op = "reset_request"
        /\ now' = now
        /\ resp'.form # NoForm)
       => IF first_by_email(users, resp'.form.email) = 0
          THEN /\ resp'.code = 200
               /\ "email" \in resp'.errors
               /\ resp'.flash = ""
               /\ outbox' = outbox
          ELSE "email" \notin resp'.errors]_vars

C5_Witness ==
    /\ resp.op = "reset_request"
    /\ resp.form # NoForm
    /\ EmailSyntax(resp.form.email)
    /\ first_by_email(users, resp.form.email) = 0
    /\ "email" \in resp.errors

\* C6 (register then login): a registration that creates a user is made
\* from an anonymous session, leaves every session as it was, and the login
\* of an anonymous client with the registered email and password then
\* authenticates it as the new user.
C6_RegisterThenLogin ==
    [][(resp'.op = "register" /\ resp'.code = 302 /\ resp'.to = "users.login")
       => /\ ~session[resp'.c].is_authenticated
          /\ session' = session
          /\ Len(users') = Len(users) + 1
          /\ users'[Len(users')].username = resp'.form.username
          /\ \A c \in Clients :
                ~session'[c].is_authenticated
                => login_outcome(users', c, "POST",
                                 [email |-> users'[Len(users')].email,
                                  password |-> plain'[Len(users')]]).user
                       = Authenticated(Len(users'))]_vars

C6_Witness ==
    /\ resp.op = "login"
    /\ resp.code = 302
    /\ resp.form # NoForm
    /\ session[resp.c] = Authenticated(first_by_email(users, resp.form.email))
    /\ resp.form.password = plain[session[resp.c].id]

\* C7 (wrong password never authenticates): a login with the email of a
\* user and a password that is not the one the user's hash was made from
\* fails and leaves the session anonymous; and a session becomes
\* authenticated only by a login that submitted that user's email and
\* password.
C7_WrongPasswordFails ==
    [][/\ (/\ resp'.op = "login"
           /\ resp'.form # NoForm
           /\ first_by_email(users, resp'.form.email) # 0
           /\ resp'.form.password # plain[first_by_email(users, resp'.form.email)])
          => /\ session' = session
             /\ ~session'[resp'.c].is_authenticated
             /\ resp'.code = 200
             /\ resp'.to = "login.html"
             /\ resp'.errors = {} => resp'.flash = LoginUnsuccessful
       /\ \A c \in Clients :
             (session'[c] # session[c] /\ session'[c].is_authenticated)
             => /\ resp'.op = "login"
                /\ resp'.c = c
                /\ resp'.form # NoForm
                /\ first_by_email(users, resp'.form.email) = session'[c].id
                /\ resp'.form.password = plain[session'[c].id]]_vars

C7_Witness ==
    /\ resp.op = "login"
    /\ resp.form # NoForm
    /\ first_by_email(users, resp.form.email) # 0
    /\ resp.form.password # plain[first_by_email(users, resp.form.email)]
    /\ resp.form.password # ""
    /\ resp.flash = LoginUnsuccessful

\* C8 (login failure does not tell the cause): a submitted login that fails,
\* for an email of no user or for a wrong password, ends in one and the same
\* visible response and an anonymous session.
C8_LoginFailureUniform ==
    (/\ resp.op = "login"
     /\ resp.form # NoForm
     /\ LoginErrors(resp.form) = {}
     /\ \/ first_by_email(users, resp.form.email) = 0
        \/ resp.form.password # plain[first_by_email(users, resp.form.email)])
    => /\ Visible(resp) = [code |-> 200, to |-> "login.html",
                           flash |-> LoginUnsuccessful, errors |-> {}]
       /\ session[resp.c] = Anonymous

C8_Witness ==
    /\ resp.op = "login"
    /\ resp.form # NoForm
    /\ LoginErrors(resp.form) = {}
    /\ first_by_email(users, resp.form.email) = 0
    /\ Len(users) >= 1

\* C9 (uniqueness): in every reachable state, whatever registrations and
\* account updates were made and however they interleaved, no two users
\* share a username and no two share an email.
C9_Uniqueness ==
    \A i, j \in 1..Len(users) :
        i # j => /\ users[i].username # users[j].username
                 /\ users[i].email # users[j].email

C9_Witness ==
    /\ Len(users) = 2
    /\ resp.code = 500
    /\ resp.op \in {"register", "account"}

\* C10 (duplicate username on register): a submitted registration whose
\* username is that of an existing user ends in a validation error on the
\* username field and leaves the users as they were; a register request
\* whose form is not read (a GET, or a caller already logged in) creates no
\* user either.
C10_DuplicateUsername ==
    [][/\ (/\ resp'.op = "register"
           /\ resp'.form # NoForm
           /\ first_by_username(users, resp'.form.username) # 0)
          => /\ resp'.code = 200
             /\ "username" \in resp'.errors
             /\ users' = users
       /\ (resp'.op = "register" /\ resp'.form = NoForm) => users' = users]_vars

C10_Witness ==
    /\ resp.op = "register"
    /\ resp.form # NoForm
    /\ first_by_username(users, resp.form.username) # 0
    /\ "username" \in resp.errors

\* C3 (authorization guard): an entry is changed or removed only by an
\* update_queue or delete_queue of a session authenticated as its owner;
\* for an authenticated user who is not the owner both end in 403 and leave
\* the entries as they were; for the owner they are not refused, and the
\* owner's delete removes the entry.
C3_AuthorizationGuard ==
    [][/\ \A e \in queues :
             e \notin queues'
             => /\ resp'.op \in {"update_queue", "delete_queue"}
                /\ resp'.form.queue_id = e.id
                /\ session[resp'.c] = Authenticated(e.user_id)
       /\ (/\ resp'.op \in {"update_queue", "delete_queue"}
           /\ session[resp'.c].is_authenticated
           /\ HasQueue(queues, resp'.form.queue_id))
          => IF QueueById(queues, resp'.form.queue_id).user_id
                    # session[resp'.c].id
             THEN resp'.code = 403 /\ queues' = queues
             ELSE /\ resp'.code \in {200, 302}
                  /\ resp'.op = "delete_queue"
                        => ~HasQueue(queues', resp'.form.queue_id)]_vars

C3_Witness ==
    /\ resp.op \in {"update_queue", "delete_queue"}
    /\ resp.code = 403
    /\ HasQueue(queues, resp.form.queue_id)
    /\ session[resp.c].is_authenticated
    /\ QueueById(queues, resp.form.queue_id).user_id # session[resp.c].id

\* C11 (ownership and creation time are fixed): every entry has one owner,
\* a user of the store; an entry appears only by new_queue, owned by the
\* user of the creating session and dated with the time of its creation; and
\* no step (update_queue, account update, password reset, another user's
\* request, the passing of time) changes the owner or the creation time of
\* an entry that exists.
C11_OwnershipFixed ==
    [][/\ \A e \in queues, e2 \in queues' :
             e2.id = e.id => /\ e2.user_id = e.user_id
                             /\ e2.date_queued = e.date_queued
       /\ \A e1 \in queues', e2 \in queues' :
             e1.id = e2.id => e1 = e2
       /\ \A e2 \in queues' :
             /\ e2.user_id \in UserIds(users')
             /\ ~HasQueue(queues, e2.id)
                => /\ resp'.op = "new_queue"
                   /\ session[resp'.c] = Authenticated(e2.user_id)
                   /\ e2.date_queued = now]_vars

C11_Witness ==
    /\ resp.op = "update_queue"
    /\ resp.code = 302
    /\ HasQueue(queues, resp.form.queue_id)
    /\ QueueById(queues, resp.form.queue_id).date_queued < now
    /\ users # SeedUsers

\* C12 (deleting twice): the owner's delete removes the entry; a delete by a
\* logged-in caller of an id that has no entry, in particular the repeat of
\* a delete that has just succeeded, ends in 404 and changes nothing.
C12_DeleteTwice ==
    [][/\ (resp'.op = "delete_queue" /\ resp'.code = 302
              /\ resp'.to = "main.home")
          => /\ HasQueue(queues, resp'.form.queue_id)
             /\ ~HasQueue(queues', resp'.form.queue_id)
       /\ (/\ resp'.op = "delete_queue"
           /\ session[resp'.c].is_authenticated
           /\ (resp'.form.again \/ ~HasQueue(queues, resp'.form.queue_id)))
          => /\ resp'.code = 404
             /\ queues' = queues
             /\ users' = users
             /\ session' = session]_vars

C12_Witness ==
    /\ resp.op = "delete_queue"
    /\ resp.form.again
    /\ resp.code = 404
    /\ queues # {}

\* C13 (listing order across pages): a listed page holds at most per_page
\* entries, as many as the listed rows leave for it; within the page no
\* entry is older than the one after it; and the last entry of the page is
\* not newer than the first entry of the next page, however the store
\* orders rows of equal date.
C13_ListingOrder ==
    (resp.op \in {"home", "user_queues"} /\ resp.code = 200)
    => LET items == resp.form.items
           page == resp.form.page
           left == Cardinality(resp.form.listed) - (page - 1) * per_page
       IN  /\ Len(items) = (IF left > per_page THEN per_page
                            ELSE IF left > 0 THEN left ELSE 0)
           /\ \A k \in 1..Len(items) : items[k] \in resp.form.listed
           /\ \A k \in 1..(Len(items) - 1) :
                  items[k].date_queued >= items[k + 1].date_queued
           /\ \A tie \in TieBreaks :
                  LET next == paginate(resp.form.listed, page + 1, tie)
                  IN  (next.found /\ next.items # <<>>)
                      => /\ Len(items) = per_page
                         /\ items[Len(items)].date_queued
                                >= next.items[1].date_queued

C13_Witness ==
    /\ resp.op = "home"
    /\ resp.code = 200
    /\ resp.form.page = 1
    /\ Cardinality(queues) > per_page
    /\ resp.form.items[1].date_queued > resp.form.items[per_page].date_queued
    /\ \E tie \in TieBreaks :
          paginate(queues, 2, tie).items[1].date_queued
              < resp.form.items[per_page].date_queued

\* C14 as claimed (single use): once a reset with token t has completed,
\* presenting t again changes no user's password hash.
C14_SingleUse ==
    [][(resp'.op = "reset_token" /\ resp'.form # NoForm /\ resp'.form.again)
       => \A u \in UserIds(users) : users'[u].password = users[u].password]_vars

\* C14 as amended: a token is not used up.  Presented again right after a
\* reset it completed, it is not turned down as invalid: it verifies to the
\* same user as before, and the request either completes another reset,
\* which overwrites that user's hash with the hash of the password now
\* submitted and no other user's, or shows the form again and changes
\* nothing.
C14_TokenReusable ==
    [][(resp'.op = "reset_token" /\ resp'.form # NoForm /\ resp'.form.again)
       => LET u == verify_reset_token(resp'.form.token, users, now)
          IN  /\ u # 0
              /\ resp'.flash # InvalidToken
              /\ \A v \in UserIds(users) \ {u} : users'[v] = users[v]
              /\ IF resp'.flash = PasswordUpdated
                 THEN /\ check_password_hash(users'[u].password, plain'[u])
                      /\ plain'[u] # ""
                 ELSE /\ resp'.code = 200
                      /\ users' = users]_vars

C14_Witness ==
    /\ resp.op = "reset_token"
    /\ resp.form # NoForm
    /\ resp.form.again
    /\ resp.flash = PasswordUpdated
    /\ \E u \in UserIds(users) : plain[u] # SeedPlain[u]

\* Tokens for the users of the store, and for a user it does not hold,
\* signed under a key that is not the application's.
ForeignTokens ==
    {SignedToken(OtherKey, [user_id |-> u], 0) : u \in 1..(MaxUsers + 1)}

\* C15 (secret binding): a token signed under a secret key other than the
\* application's verifies to no user, for every user id in it and at every
\* time, and presented to reset_token it is turned down and changes no
\* user.
C15_SecretBinding ==
    [][/\ \A token \in ForeignTokens, t \in ClockValues :
             verify_reset_token(token, users, t) = 0
       /\ (/\ resp'.op = "reset_token"
           /\ resp'.form # NoForm
           /\ resp'.form.token \in ForeignTokens)
          => /\ resp'.flash = InvalidToken
             /\ resp'.to = "users.reset_request"
             /\ users' = users]_vars

C15_Witness ==
    /\ resp.op = "reset_token"
    /\ resp.form # NoForm
    /\ resp.form.token = SignedToken(OtherKey, [user_id |-> 1], 0)
    /\ resp.flash = InvalidToken
    /\ verify_reset_token(SignedToken(SECRET_KEY, [user_id |-> 1], 0), users, now) = 1

\* C16 (effect of a successful reset): a reset completes only for an
\* anonymous caller and a token that verifies to a user u; it overwrites
\* u's password hash with the hash of the submitted password and changes
\* nothing else: u's other columns, the other users, the entries, the
\* sessions (the caller stays anonymous), the mails.  Afterwards a login
\* with u's email and the new password authenticates as u, and one with the
\* old password, where it differs from the new, fails.
C16_ResetEffect ==
    [][(resp'.op = "reset_token" /\ resp'.flash = PasswordUpdated /\ now' = now)
       => LET u == verify_reset_token(resp'.form.token, users, now)
          IN  /\ session[resp'.c] = Anonymous
              /\ u \in UserIds(users)
              /\ Len(users') = Len(users)
              /\ \A v \in UserIds(users) \ {u} : users'[v] = users[v]
              /\ users'[u] = [users[u] EXCEPT !.password = users'[u].password]
              /\ plain'[u] # ""
              /\ check_password_hash(users'[u].password, plain'[u])
              /\ queues' = queues
              /\ session' = session
              /\ outbox' = outbox
              /\ \A c \in Clients :
                    /\ login_outcome(users', c, "POST",
                                     [email |-> users'[u].email,
                                      password |-> plain'[u]]).user
                           = Authenticated(u)
                    /\ plain[u] # plain'[u]
                          => login_outcome(users', c, "POST",
                                           [email |-> users'[u].email,
                                            password |-> plain[u]]).user
                                 = Anonymous]_vars

C16_Witness ==
    /\ resp.op = "reset_token"
    /\ resp.flash = PasswordUpdated
    /\ Len(users) = 2
    /\ queues # {}
    /\ \E u \in UserIds(users) :
          /\ u = verify_reset_token(resp.form.token, users, now)
          /\ plain[u] # SeedPlain[u]
          /\ check_password_hash(users[u].password, plain[u])

\* C17 (all-or-nothing update): the stored title or content of an entry
\* changes only in a step that completes an update_queue, and the entry
\* then holds both the title and the content that request submitted; an
\* update that does not complete (validation failure, crash, error) and the
\* steps inside an update leave every entry as it was.
C17_AllOrNothing ==
    [][\A e \in queues, e2 \in queues' :
          (e2.id = e.id /\ e2 # e)
          => /\ resp'.op = "update_queue"
             /\ resp'.flash = QueueUpdated
             /\ resp'.form.queue_id = e.id
             /\ e2.title = resp'.form.title
             /\ e2.content = resp'.form.content]_vars

\* The store holds a row with the username or the email of form f.
Taken(us, f) ==
    \E i \in UserIds(us) : us[i].username = f.username \/ us[i].email = f.email

\* C18 (concurrent registration race): a register request that passed the
\* form's uniqueness check and commits after another request has taken its
\* username or its email ends in an error at the commit and adds no row;
\* otherwise its commit adds exactly its row.  Either way no username and
\* no email is held by two rows afterwards.
C18_RegistrationRace ==
    [][(pending # Idle /\ pending.op = "register" /\ pending' = Idle)
       => /\ resp'.op = "register"
          /\ IF Taken(users, pending.form)
             THEN /\ resp'.code = 500
                  /\ users' = users
             ELSE /\ resp'.code = 302
                  /\ Len(users') = Len(users) + 1
                  /\ SubSeq(users', 1, Len(users)) = users
                  /\ users'[Len(users')].username = pending.form.username
                  /\ users'[Len(users')].email = pending.form.email
          /\ Cardinality({i \in UserIds(users') :
                 users'[i].username = pending.form.username}) <= 1
          /\ Cardinality({i \in UserIds(users') :
                 users'[i].email = pending.form.email}) <= 1]_vars

C18_Witness ==
    /\ resp.op = "register"
    /\ resp.code = 500
    /\ pending = Idle
    /\ Len(users) = 1
    /\ users[1].username = resp.form.username
    /\ users[1].image_file = "default.jpg"

=============================================================================
